---- MODULE Spec2Model ----
(***************************************************************************)
(* Rule-based symbolic differentiation (Calc2_formula_lib).                *)
(*                                                                         *)
(* The library is a set of pure functions over symbolic expressions.  The  *)
(* expression engine it calls (parsing with automatic evaluation, expand,  *)
(* factor_terms, simplify, diff, as_independent, has, is_polynomial) is    *)
(* modelled here on a bounded fragment of expressions: integers, the       *)
(* differentiation variable x, one other symbol a, sums, products, powers  *)
(* and the functions sin, cos, exp, log.                                   *)
(*                                                                         *)
(* An expression is a record [k, n, s, sub, args]:                         *)
(*   k = "num"  the integer n                                              *)
(*   k = "sym"  the symbol named s                                         *)
(*   k = "fn"   the function s applied to sub[1]                           *)
(*   k = "pow"  sub[1] ^ sub[2]                                            *)
(*   k = "add"  the sum of the terms in args                               *)
(*   k = "mul"  n times the product of the factors in args                 *)
(* Sums and products hold their arguments as sets: the engine combines     *)
(* like terms and equal bases, so an evaluated sum or product never holds  *)
(* the same argument twice, and the engine's argument order plays no role  *)
(* in the library.                                                         *)
(*                                                                         *)
(* Functions call one another through Run(fn, args), which evaluates the   *)
(* arguments and runs the function named fn: sp_Mul(a, b), sp_diff(e, x),  *)
(* ... are the calls, and Mul2, Diff, ... the functions called.            *)
(***************************************************************************)
EXTENDS Integers, Sequences, FiniteSets, TLC

\* ------------------------------------------------------------------ bounds
\* Number literals of the input texts range over 0..MaxNum.
MaxNum == 2

\* ------------------------------------------------------------- expressions
Node(k, n, s, sub, args) == [k |-> k, n |-> n, s |-> s, sub |-> sub, args |-> args]

Num(n) == Node("num", n, "", <<>>, {})
Sym(s) == Node("sym", 0, s, <<>>, {})
FnNode(f, g) == Node("fn", 0, f, <<g>>, {})
PowNode(b, e) == Node("pow", 0, "", <<b, e>>, {})
AddNode(ts) == Node("add", 0, "", <<>>, ts)
MulNode(c, fs) == Node("mul", c, "", <<>>, fs)

Zero == Num(0)
One == Num(1)
\* The placeholder of "no expression" (an absent result, a step without a value).
NoExpr == Node("none", 0, "", <<>>, {})
\* Euler's number, and the base the engine gives exp(g) when it combines
\* powers: exp(g) is EBase ^ g.
Euler == Sym("E")
EBase == Sym("exp-base")

TheOne(S) == CHOOSE e \in S : TRUE

\* e.has(x): whether the expression contains the symbol.
RECURSIVE Has(_, _)
Has(e, x) ==
    \/ e = x
    \/ \E i \in 1..Len(e.sub) : Has(e.sub[i], x)
    \/ \E t \in e.args : Has(t, x)

\* ------------------------------------------------------ function calls
\* Run(fn, args) is what calling the function named fn with args gives.  The
\* functions of the engine and of the library call one another through it.
RECURSIVE Run(_, _)

\* The engine's functions as the library writes them.
sp_Add(a, b) == Run("Add", <<a, b>>)
sp_Mul(a, b) == Run("Mul", <<a, b>>)
sp_Pow(b, e) == Run("Pow", <<b, e>>)
sp_Function(f, g) == Run("Function", <<f, g>>)
sp_diff(e, x) == Run("diff", <<e, x>>)
sp_expand(e) == Run("expand", <<e>>)
sp_factor_terms(e) == Run("factor_terms", <<e>>)
as_independent(e, x) == Run("as_independent", <<e, x>>)
sp_simplify(e) == Run("simplify", <<e>>)
sympy_parse_expr(t) == Run("parse_expr", <<t>>)

\* ----------------------------------------------- the engine's evaluation
\* An unevaluated product c * fs (the engine's _keep_coeff / Mul._from_args).
RawMul(c, fs) ==
    IF fs = {} THEN Num(c)
    ELSE IF c = 1 /\ Cardinality(fs) = 1 THEN TheOne(fs)
    ELSE MulNode(c, fs)

AddTerms(a) == IF a.k = "add" THEN a.args ELSE IF a = Zero THEN {} ELSE {a}
\* as_coeff_Mul: a term is coefficient * rest.
CoeffOf(t) == IF t.k \in {"num", "mul"} THEN t.n ELSE 1
TermOf(t) == IF t.k = "num" THEN One ELSE IF t.k = "mul" THEN RawMul(1, t.args) ELSE t
CoeffIn(a, key) ==
    LET ts == {t \in AddTerms(a) : TermOf(t) = key}
    IN IF ts = {} THEN 0 ELSE CoeffOf(TheOne(ts))
Scale(c, key) ==
    IF key = One THEN Num(c)
    ELSE IF c = 1 THEN key
    ELSE IF key.k = "mul" THEN MulNode(c, key.args)
    ELSE MulNode(c, {key})
FromTerms(ts) ==
    IF ts = {} THEN Zero
    ELSE IF Cardinality(ts) = 1 THEN TheOne(ts)
    ELSE AddNode(ts)

\* a + b as the engine evaluates it (Add.flatten): sums are flattened, numbers
\* added, like terms collected.
Add2(a, b) ==
    LET keys == {TermOf(t) : t \in AddTerms(a) \cup AddTerms(b)}
        c(key) == CoeffIn(a, key) + CoeffIn(b, key)
    IN FromTerms({Scale(c(key), key) : key \in {q \in keys : c(q) # 0}})

RECURSIVE IntPow(_, _)
IntPow(b, n) == IF n = 0 THEN 1 ELSE b * IntPow(b, n - 1)

MulCoeff(a) == IF a.k \in {"num", "mul"} THEN a.n ELSE 1
MulFactors(a) == IF a.k = "num" THEN {} ELSE IF a.k = "mul" THEN a.args ELSE {a}
\* as_base_exp: a factor is base ^ exponent.
BaseOf(f) ==
    IF f.k = "pow" THEN f.sub[1]
    ELSE IF f.k = "fn" /\ f.s = "exp" THEN EBase
    ELSE f
ExpOf(f) ==
    IF f.k = "pow" THEN f.sub[2]
    ELSE IF f.k = "fn" /\ f.s = "exp" THEN f.sub[1]
    ELSE One
ExpIn(a, base) ==
    LET fs == {f \in MulFactors(a) : BaseOf(f) = base}
    IN IF fs = {} THEN Zero ELSE ExpOf(TheOne(fs))

RECURSIVE NumProduct(_)
NumProduct(S) ==
    IF S = {} THEN 1
    ELSE LET e == TheOne(S) IN e.n * NumProduct(S \ {e})

RECURSIVE MulAll(_)

\* a * b as the engine evaluates it (Mul.flatten): products are flattened,
\* numbers multiplied, equal bases combined by adding their exponents; a number
\* times a sum is distributed over the sum (the two-argument case only).
Mul2(a, b) ==
    IF a.k = "num" /\ b.k = "add" THEN
        IF a.n = 0 THEN Zero
        ELSE FromTerms({Scale(a.n * CoeffOf(t), TermOf(t)) : t \in b.args})
    ELSE IF b.k = "num" /\ a.k = "add" THEN sp_Mul(b, a)
    ELSE
        LET bases == {BaseOf(f) : f \in MulFactors(a) \cup MulFactors(b)}
            ps == {sp_Pow(q, sp_Add(ExpIn(a, q), ExpIn(b, q))) : q \in bases}
            nums == {p \in ps : p.k = "num"}
            c == MulCoeff(a) * MulCoeff(b) * NumProduct(nums)
        IN IF c = 0 THEN Zero ELSE RawMul(c, ps \ nums)

MulAll(S) ==
    IF S = {} THEN One
    ELSE LET e == TheOne(S) IN sp_Mul(e, MulAll(S \ {e}))

\* b ^ e as the engine evaluates it (Pow.__new__, _eval_power).
MkPow(b, e) ==
    IF e = Zero THEN One
    ELSE IF b \in {EBase, Euler} THEN
        (IF e = One THEN Euler
         ELSE IF e.k = "fn" /\ e.s = "log" THEN e.sub[1]
         ELSE FnNode("exp", e))
    ELSE IF e = One THEN b
    ELSE IF b = One THEN One
    ELSE IF b.k = "num" /\ e.k = "num" /\ e.n > 0 THEN Num(IntPow(b.n, e.n))
    ELSE IF b.k = "pow" /\ e.k = "num" THEN sp_Pow(b.sub[1], sp_Mul(b.sub[2], e))
    ELSE IF b.k = "fn" /\ b.s = "exp" /\ e.k = "num" THEN
        FnNode("exp", sp_Mul(b.sub[1], e))
    ELSE IF b.k = "mul" /\ e.k = "num" THEN
        sp_Mul(sp_Pow(Num(b.n), e), MulAll({sp_Pow(f, e) : f \in b.args}))
    ELSE IF b.k = "mul" /\ b.n >= 2 THEN
        \* a positive numeric coefficient leaves the base: (2*x)^e = 2^e * x^e
        sp_Mul(sp_Pow(Num(b.n), e), sp_Pow(RawMul(1, b.args), e))
    ELSE PowNode(b, e)

\* A function application as the engine evaluates it.
MkFn(f, g) ==
    IF f = "sin" /\ g = Zero THEN Zero
    ELSE IF f = "cos" /\ g = Zero THEN One
    ELSE IF f = "exp" THEN sp_Pow(EBase, g)
    ELSE IF f = "log" /\ g = One THEN Zero
    ELSE FnNode(f, g)

Neg(a) == sp_Mul(Num(-1), a)
Sub2(a, b) == sp_Add(a, Neg(b))

RECURSIVE AddAll(_)
AddAll(S) ==
    IF S = {} THEN Zero
    ELSE LET e == TheOne(S) IN sp_Add(e, AddAll(S \ {e}))

\* ------------------------------------------------------------ sp.diff
\* The engine's generic derivative of e with respect to the symbol x.
RECURSIVE DiffSum(_, _), DiffProduct(_, _, _)
DiffSum(S, x) ==
    IF S = {} THEN Zero
    ELSE LET t == TheOne(S) IN sp_Add(sp_diff(t, x), DiffSum(S \ {t}, x))
\* The sum over the factors f in S of f' times the other factors of e.
DiffProduct(e, S, x) ==
    IF S = {} THEN Zero
    ELSE LET f == TheOne(S)
             others == sp_Mul(Num(e.n), MulAll(e.args \ {f}))
         IN sp_Add(sp_Mul(sp_diff(f, x), others), DiffProduct(e, S \ {f}, x))
Diff(e, x) ==
    CASE e.k = "num" -> Zero
      [] e.k = "sym" -> IF e = x THEN One ELSE Zero
      [] e.k = "add" -> DiffSum(e.args, x)
      [] e.k = "mul" -> DiffProduct(e, e.args, x)
      [] e.k = "pow" ->
            \* b^e * (e' * log(b) + b' * e / b)
            LET b == e.sub[1]
                p == e.sub[2]
                db == sp_diff(b, x)
                dp == sp_diff(p, x)
                viaExp == IF dp = Zero THEN Zero ELSE sp_Mul(dp, sp_Function("log", b))
                viaBase == IF db = Zero THEN Zero
                           ELSE sp_Mul(sp_Mul(db, p), sp_Pow(b, Num(-1)))
            IN sp_Mul(e, sp_Add(viaExp, viaBase))
      [] e.k = "fn" ->
            LET g == e.sub[1]
                dg == sp_diff(g, x)
            IN CASE e.s = "sin" -> sp_Mul(sp_Function("cos", g), dg)
                 [] e.s = "cos" -> sp_Mul(Neg(sp_Function("sin", g)), dg)
                 [] e.s = "exp" -> sp_Mul(e, dg)
                 [] e.s = "log" -> sp_Mul(sp_Pow(g, Num(-1)), dg)
      [] OTHER -> Zero

\* ---------------------------------------------------------- sp.expand
\* p * q with every sum among the factors multiplied out.
RECURSIVE DistMul(_, _), DistOver(_, _)
DistOver(S, q) ==
    IF S = {} THEN Zero
    ELSE LET t == TheOne(S) IN sp_Add(DistMul(t, q), DistOver(S \ {t}, q))
DistMul(p, q) ==
    IF p.k = "add" THEN DistOver(p.args, q)
    ELSE IF q.k = "add" THEN DistOver(q.args, p)
    ELSE sp_Mul(p, q)

RECURSIVE DistPow(_, _)
DistPow(b, n) == IF n = 0 THEN One ELSE DistMul(b, DistPow(b, n - 1))

RECURSIVE ExpandSum(_), ExpandProduct(_), SplitExponent(_, _)
ExpandSum(S) ==
    IF S = {} THEN Zero
    ELSE LET t == TheOne(S) IN sp_Add(sp_expand(t), ExpandSum(S \ {t}))
ExpandProduct(S) ==
    IF S = {} THEN One
    ELSE LET f == TheOne(S) IN DistMul(sp_expand(f), ExpandProduct(S \ {f}))
\* b^(t1 + t2 + ...) = b^t1 * b^t2 * ...
SplitExponent(b, S) ==
    IF S = {} THEN One
    ELSE LET t == TheOne(S) IN sp_Mul(sp_Pow(b, t), SplitExponent(b, S \ {t}))
Expand(e) ==
    CASE e.k = "add" -> ExpandSum(e.args)
      [] e.k = "mul" -> DistMul(Num(e.n), ExpandProduct(e.args))
      [] e.k = "pow" \/ (e.k = "fn" /\ e.s = "exp") ->
            LET b == sp_expand(BaseOf(e))
                p == sp_expand(ExpOf(e))
            IN IF p.k = "add" THEN SplitExponent(b, p.args)
               ELSE IF p.k = "num" /\ p.n >= 2 /\ b.k = "add" THEN DistPow(b, p.n)
               ELSE sp_Pow(b, p)
      [] e.k = "fn" ->
            LET g == sp_expand(e.sub[1])
            IN IF e.s = "log" /\ g.k = "mul" /\ g.n >= 2
               THEN sp_Add(sp_Function("log", Num(g.n)), sp_Function("log", RawMul(1, g.args)))
               ELSE sp_Function(e.s, g)
      [] OTHER -> e

\* ------------------------------------------------ Expr.is_polynomial(x)
RECURSIVE IsPolynomial(_, _)
IsPolynomial(e, x) ==
    IF ~Has(e, x) THEN TRUE
    ELSE CASE e.k = "sym" -> TRUE
           [] e.k \in {"add", "mul"} -> \A t \in e.args : IsPolynomial(t, x)
           [] e.k = "pow" ->
                 /\ ~Has(e.sub[2], x)
                 /\ IsPolynomial(e.sub[1], x)
                 /\ e.sub[2].k = "num" /\ e.sub[2].n >= 0
           [] OTHER -> FALSE

\* ---------------------------------------------------- sp.factor_terms
RECURSIVE Gcd(_, _)
Gcd(m, n) == IF n = 0 THEN m ELSE Gcd(n, m % n)
Abs(n) == IF n < 0 THEN -n ELSE n
RECURSIVE GcdAll(_)
GcdAll(S) == IF S = {} THEN 0 ELSE LET n == TheOne(S) IN Gcd(Abs(n), GcdAll(S \ {n}))
RECURSIVE MinOf(_)
MinOf(S) ==
    LET n == TheOne(S)
    IN IF S = {n} THEN n ELSE LET m == MinOf(S \ {n}) IN IF n < m THEN n ELSE m

\* The exponent with which base q divides the term t (0 when it does not):
\* only positive integer exponents count.
Multiplicity(t, q) ==
    LET fs == {f \in MulFactors(t) : BaseOf(f) = q}
    IN IF fs = {} THEN 0
       ELSE LET p == ExpOf(TheOne(fs))
            IN IF p.k = "num" /\ p.n > 0 THEN p.n ELSE 0

RECURSIVE FactorProduct(_)
FactorEach(S) == {sp_factor_terms(t) : t \in S}
FactorProduct(S) ==
    IF S = {} THEN One
    ELSE LET f == TheOne(S) IN sp_Mul(sp_factor_terms(f), FactorProduct(S \ {f}))
FactorTerms(e) ==
    CASE e.k = "add" ->
            LET ts == FactorEach(e.args)
                cont == GcdAll({CoeffOf(t) : t \in ts})
                bases == {BaseOf(f) : f \in UNION {MulFactors(t) : t \in ts}}
                common == {q \in bases : \A t \in ts : Multiplicity(t, q) > 0}
                m(q) == MinOf({Multiplicity(t, q) : t \in ts})
                divisor == sp_Mul(Num(cont), MulAll({sp_Pow(q, Num(m(q))) : q \in common}))
                quotient(t) ==
                    sp_Mul(Num(CoeffOf(t) \div cont),
                         MulAll({sp_Pow(BaseOf(f), Sub2(ExpOf(f), Num(IF BaseOf(f) \in common
                                                                      THEN m(BaseOf(f)) ELSE 0)))
                                 : f \in MulFactors(t)}))
            IN IF divisor = One THEN FromTerms(ts)
               ELSE RawMul(cont, MulFactors(divisor) \cup {FromTerms({quotient(t) : t \in ts})})
      [] e.k = "mul" -> sp_Mul(Num(e.n), FactorProduct(e.args))
      [] e.k = "pow" -> sp_Pow(sp_factor_terms(e.sub[1]), sp_factor_terms(e.sub[2]))
      [] e.k = "fn" -> sp_Function(e.s, sp_factor_terms(e.sub[1]))
      [] OTHER -> e

\* -------------------------------- Expr.as_independent(x, as_Add=False)
\* The pair <<c, rest>>: the part of a product independent of x and the part
\* depending on it; anything that is not a product is one factor.
AsIndependent(e, x) ==
    IF e = Zero THEN <<Zero, Zero>>
    ELSE IF e.k # "mul" THEN (IF Has(e, x) THEN <<One, e>> ELSE <<e, One>>)
    ELSE LET depend == {f \in e.args : Has(f, x)}
             indep == e.args \ depend
         IN <<sp_Mul(Num(e.n), MulAll(indep)), RawMul(1, depend)>>

\* --------------------------------------------------------- sp.simplify
\* On this fragment simplify re-evaluates the expression bottom up, which
\* distributes a numeric coefficient left in front of a single sum, and
\* collapses a numeric base raised to a multiple of an expression:
\* 2^(3*x) becomes 8^x.
RECURSIVE SimplifySum(_), SimplifyProduct(_)
SimplifySum(S) ==
    IF S = {} THEN Zero
    ELSE LET t == TheOne(S) IN sp_Add(sp_simplify(t), SimplifySum(S \ {t}))
SimplifyProduct(S) ==
    IF S = {} THEN One
    ELSE LET f == TheOne(S) IN sp_Mul(sp_simplify(f), SimplifyProduct(S \ {f}))
Simplify(e) ==
    CASE e.k = "add" -> SimplifySum(e.args)
      [] e.k = "mul" -> sp_Mul(Num(e.n), SimplifyProduct(e.args))
      [] e.k = "pow" ->
            LET b == sp_simplify(e.sub[1])
                p == sp_simplify(e.sub[2])
            IN IF b.k = "num" /\ b.n >= 2 /\ p.k = "mul" /\ p.n >= 2
               THEN sp_Pow(Num(IntPow(b.n, p.n)), RawMul(1, p.args))
               ELSE sp_Pow(b, p)
      [] e.k = "fn" -> sp_Function(e.s, sp_simplify(e.sub[1]))
      [] OTHER -> e

\* ------------------------------------------------------------- inputs
\* The text of an expression is its syntax tree: numbers, symbols, function
\* calls f(g) and the binary operators "+", "*" and "^" (sub = <<left, right>>).
\* A text that does not parse is a "syntax-error" node carrying the text.
Bin(op, l, r) == Node(op, 0, "", <<l, r>>, {})
Call(f, g) == Node("fn", 0, f, <<g>>, {})
BadText(t) == Node("syntax-error", 0, t, <<>>, {})

X == Sym("x")
A == Sym("a")
Functions == {"sin", "cos", "exp", "log"}
Numerals == {Num(n) : n \in 0..MaxNum}
Atoms == Numerals \cup {X, A}
\* k*x, x + k and k*x + 1
Linear ==
    {Bin("*", Num(k), X) : k \in 2..MaxNum}
        \cup {Bin("+", X, Num(k)) : k \in 1..MaxNum}
        \cup {Bin("+", Bin("*", Num(k), X), One) : k \in 2..MaxNum}
Inner == {X, A} \cup Linear
Calls == {Call(f, g) : f \in Functions, g \in Inner}
Powers == {Bin("^", b, e) : b \in (Atoms \ {Zero}) \cup Linear, e \in Atoms \cup Linear}
Simple == Atoms \cup Linear \cup Calls \cup Powers
\* One operand of a sum or product of two.
Operands == {X, A, Num(MaxNum), Bin("+", X, One), Bin("^", X, Num(2))}
Compound ==
    {Bin(op, p, q) : op \in {"+", "*"}, p \in Operands, q \in Simple}
        \cup {Bin("*", Bin("*", p, q), r) : p, q, r \in Linear}
BadTexts == {BadText("x**"), BadText("2 +"), BadText("(x")}

\* What a caller passes as expr: a text, or an expression already built.
Text(t) == [form |-> "text", tree |-> t]
Built(e) == [form |-> "expr", tree |-> e]

\* The engine's parser: the text's tree evaluated bottom up.
Evaluate(t) ==
    CASE t.k = "+" -> sp_Add(sympy_parse_expr(t.sub[1]), sympy_parse_expr(t.sub[2]))
      [] t.k = "*" -> sp_Mul(sympy_parse_expr(t.sub[1]), sympy_parse_expr(t.sub[2]))
      [] t.k = "^" -> sp_Pow(sympy_parse_expr(t.sub[1]), sympy_parse_expr(t.sub[2]))
      [] t.k = "fn" -> sp_Function(t.s, sympy_parse_expr(t.sub[1]))
      [] OTHER -> t

Inputs ==
    {Text(t) : t \in Simple \cup Compound \cup BadTexts}
        \cup {Built(sympy_parse_expr(t)) : t \in Linear \cup Calls}

\* ------------------------------------------------------------ _core.py
RuleResult(input_expr, output_expr, applied, rule_name, message, steps) ==
    [input_expr |-> input_expr, output_expr |-> output_expr, applied |-> applied,
     rule_name |-> rule_name, message |-> message, steps |-> steps]
\* One entry of a steps trail: its text and, for a formatted step, the value
\* formatted into it.
Step(text) == [text |-> text, val |-> NoExpr]
StepWith(text, val) == [text |-> text, val |-> val]

NoResult == RuleResult(NoExpr, NoExpr, FALSE, "", "", <<>>)
NoError == [type |-> "", msg |-> <<>>, arg |-> NoExpr]

\* What a call does: it returns a RuleResult or raises an error; invoked lists
\* the matchers the call ran, in order.
Return(r) == [raised |-> FALSE, result |-> r, error |-> NoError, invoked |-> <<>>]
Raise(err) == [raised |-> TRUE, result |-> NoResult, error |-> err, invoked |-> <<>>]
Invoking(name, out) == [out EXCEPT !.invoked = <<name>> \o @]

get_symbol(var) == IF var.form = "symbol" THEN var.sym ELSE Sym(var.name)
\* The default of every var parameter: the name "x".
DefaultVar == [form |-> "name", name |-> "x", sym |-> NoExpr]

\* Variant: without convert_xor, a text with ^ is rejected too.
ParseFailsOnXor(expr) == expr.form = "text" /\ expr.tree.k \in {"syntax-error", "^"}

\* parse_expr raises for a text the parser rejects ...
ParseFails(expr) == expr.form = "text" /\ expr.tree.k = "syntax-error"
InvalidExpression(expr) ==
    [type |-> "ValueError",
     msg |-> <<"Invalid expression: ", expr.tree.s,
               ". Please provide a valid math expression in x.">>,
     arg |-> expr.tree]
\* ... and otherwise returns an expression as it is, and a text parsed.
parse_expr(expr) == IF expr.form = "expr" THEN expr.tree ELSE sympy_parse_expr(expr.tree)

\* Variant: the not-applicable result leaves output_expr unset.
not_applicable_without_output(input_expr, rule_name, message) ==
    RuleResult(input_expr, NoExpr, FALSE, rule_name, message, <<>>)

not_applicable(input_expr, rule_name, message) ==
    RuleResult(input_expr, input_expr, FALSE, rule_name, message, <<>>)

\* ---------------------------------------------------- derivative_rule.py
apply_power_rule_derivative(expr, var) ==
    IF ParseFails(expr) THEN Raise(InvalidExpression(expr))
    ELSE
        LET x == get_symbol(var)
            rule_name == "power_rule"
            f == sp_expand(parse_expr(expr))
        IN IF ~IsPolynomial(f, x)
           THEN Return(not_applicable(f, rule_name,
                    "Not applicable: expression is not a polynomial in x (power-rule mode)."))
           ELSE Return(RuleResult(f, sp_simplify(sp_diff(f, x)), TRUE, rule_name,
                    "Applied power rule term-by-term (polynomial).",
                    <<Step("Recognize polynomial in x."), Step("Differentiate each term.")>>))

\* Variant: the rule also asks that the remaining part depends on x.
apply_constant_multiple_dependent_rest(expr, var) ==
    IF ParseFails(expr) THEN Raise(InvalidExpression(expr))
    ELSE
        LET x == get_symbol(var)
            rule_name == "constant_multiple_rule"
            f_s == sp_factor_terms(parse_expr(expr))
            c == as_independent(f_s, x)[1]
            rest == as_independent(f_s, x)[2]
        IN IF c = One \/ ~Has(rest, x)
           THEN Return(not_applicable(f_s, rule_name,
                    "Not applicable: no constant multiple factor found."))
           ELSE Return(RuleResult(f_s, sp_simplify(sp_Mul(c, sp_diff(rest, x))), TRUE, rule_name,
                    "Applied constant multiple rule for derivatives.",
                    <<StepWith("Factor out constant c = {c}.", c),
                      Step("Differentiate the remaining part.")>>))

apply_constant_multiple_derivative(expr, var) ==
    IF ParseFails(expr) THEN Raise(InvalidExpression(expr))
    ELSE
        LET x == get_symbol(var)
            rule_name == "constant_multiple_rule"
            f_s == sp_factor_terms(parse_expr(expr))
            c == as_independent(f_s, x)[1]
            rest == as_independent(f_s, x)[2]
        IN IF c = One
           THEN Return(not_applicable(f_s, rule_name,
                    "Not applicable: no constant multiple factor found."))
           ELSE Return(RuleResult(f_s, sp_simplify(sp_Mul(c, sp_diff(rest, x))), TRUE, rule_name,
                    "Applied constant multiple rule for derivatives.",
                    <<StepWith("Factor out constant c = {c}.", c),
                      Step("Differentiate the remaining part.")>>))

\* Variant: the product rule with a minus sign.
ProductFormulaMinus(c, nonconst, x) ==
    LET f1 == TheOne(nonconst)
        f2 == TheOne(nonconst \ {f1})
    IN sp_Mul(c, Sub2(sp_Mul(f1, sp_diff(f2, x)), sp_Mul(sp_diff(f1, x), f2)))

\* c * (f1 * f2' + f1' * f2) for the two factors of nonconst
ProductFormula(c, nonconst, x) ==
    LET f1 == TheOne(nonconst)
        f2 == TheOne(nonconst \ {f1})
    IN sp_Mul(c, sp_Add(sp_Mul(f1, sp_diff(f2, x)), sp_Mul(sp_diff(f1, x), f2)))

\* Variant: rest is always taken as one factor.
NonConstSingleFactor(rest, x) == {f \in {rest} : Has(f, x)}

\* factors = list(rest.args) if rest is a product else [rest]; nonconst = those
\* that have x
NonConstFactors(rest, x) ==
    LET factors == IF rest.k = "mul" THEN MulFactors(rest) ELSE {rest}
    IN {f \in factors : Has(f, x)}

apply_product_rule(expr, var) ==
    IF ParseFails(expr) THEN Raise(InvalidExpression(expr))
    ELSE
        LET x == get_symbol(var)
            rule_name == "product_rule"
            e == sp_simplify(parse_expr(expr))
            c == as_independent(e, x)[1]
            rest == as_independent(e, x)[2]
            nonconst == NonConstFactors(rest, x)
        IN IF e.k # "mul"
           THEN Return(not_applicable(e, rule_name,
                    "Not applicable: expression is not a product."))
           ELSE IF Cardinality(nonconst) # 2
           THEN Return(not_applicable(e, rule_name,
                    "Not applicable: product rule requires exactly two x-dependent factors (simple mode)."))
           ELSE Return(RuleResult(e, sp_simplify(ProductFormula(c, nonconst, x)), TRUE, rule_name,
                    "Applied product rule.",
                    <<Step("Identify f(x) and g(x)."), Step("Compute f g' + f' g.")>>))

\* Variant: the exponent of a power is not tested for x.
ChainPatternAnyExponent(e, x) ==
    IF e.k = "pow" /\ Has(e.sub[1], x) /\ e.sub[2] # One THEN "pow"
    ELSE IF e.k = "fn" /\ e.s = "exp" /\ Has(e.sub[1], x) THEN "exp"
    ELSE IF e.k = "fn" /\ e.s = "log" /\ Has(e.sub[1], x) THEN "log"
    ELSE IF e.k = "fn" /\ e.s = "sin" /\ Has(e.sub[1], x) THEN "sin"
    ELSE IF e.k = "fn" /\ e.s = "cos" /\ Has(e.sub[1], x) THEN "cos"
    ELSE ""

\* The outer form the chain rule matches, "" when it matches none: the tests
\* of the code in their order.
ChainPattern(e, x) ==
    IF e.k = "pow" /\ Has(e.sub[1], x) /\ ~Has(e.sub[2], x) /\ e.sub[2] # One THEN "pow"
    ELSE IF e.k = "fn" /\ e.s = "exp" /\ Has(e.sub[1], x) THEN "exp"
    ELSE IF e.k = "fn" /\ e.s = "log" /\ Has(e.sub[1], x) THEN "log"
    ELSE IF e.k = "fn" /\ e.s = "sin" /\ Has(e.sub[1], x) THEN "sin"
    ELSE IF e.k = "fn" /\ e.s = "cos" /\ Has(e.sub[1], x) THEN "cos"
    ELSE ""

apply_chain_rule(expr, var) ==
    IF ParseFails(expr) THEN Raise(InvalidExpression(expr))
    ELSE
        LET x == get_symbol(var)
            rule_name == "chain_rule"
            e == sp_simplify(parse_expr(expr))
            pattern == ChainPattern(e, x)
            g == e.sub[1]
            n == e.sub[2]
            dg == sp_diff(g, x)
        IN CASE pattern = "pow" ->
                   Return(RuleResult(e,
                       sp_simplify(sp_Mul(sp_Mul(n, sp_Pow(g, Sub2(n, One))), dg)),
                       TRUE, rule_name, "Applied chain rule for power of inner function.",
                       <<Step("Match pattern (g(x))^n."),
                         Step("Derivative: n*(g(x))^(n-1)*g'(x).")>>))
             [] pattern = "exp" ->
                   Return(RuleResult(e, sp_simplify(sp_Mul(sp_Function("exp", g), dg)),
                       TRUE, rule_name, "Applied chain rule for exponential.",
                       <<Step("Match pattern exp(g(x))."),
                         Step("Derivative: exp(g(x))*g'(x).")>>))
             [] pattern = "log" ->
                   Return(RuleResult(e, sp_simplify(sp_Mul(dg, sp_Pow(g, Num(-1)))),
                       TRUE, rule_name, "Applied chain rule for natural log.",
                       <<Step("Match pattern ln(g(x))."),
                         Step("Derivative: g'(x)/g(x).")>>))
             [] pattern = "sin" ->
                   Return(RuleResult(e, sp_simplify(sp_Mul(sp_Function("cos", g), dg)),
                       TRUE, rule_name, "Applied chain rule for sine.",
                       <<Step("Match pattern sin(g(x))."),
                         Step("Derivative: cos(g(x))*g'(x).")>>))
             [] pattern = "cos" ->
                   Return(RuleResult(e, sp_simplify(sp_Mul(Neg(sp_Function("sin", g)), dg)),
                       TRUE, rule_name, "Applied chain rule for cosine.",
                       <<Step("Match pattern cos(g(x))."),
                         Step("Derivative: -sin(g(x))*g'(x).")>>))
             [] OTHER ->
                   Return(not_applicable(e, rule_name,
                       "Not applicable: expression does not match supported chain-rule patterns (simple mode)."))

\* Variant: the base is tested before the exponent.
ExponentialReasonBaseFirst(e, x) ==
    IF e.k # "pow" THEN "Not applicable: expression is not a^x."
    ELSE IF Has(e.sub[1], x) THEN "Not applicable: base a is not constant."
    ELSE IF e.sub[2] # x THEN "Not applicable: exponent is not x."
    ELSE ""

\* Why the exponential rule does not apply to the parsed e, "" when it does:
\* the three tests of the code in their order.
ExponentialReason(e, x) ==
    IF e.k # "pow" THEN "Not applicable: expression is not a^x."
    ELSE IF e.sub[2] # x THEN "Not applicable: exponent is not x."
    ELSE IF Has(e.sub[1], x) THEN "Not applicable: base a is not constant."
    ELSE ""

apply_exponential_derivative_rule(expr, var) ==
    IF ParseFails(expr) THEN Raise(InvalidExpression(expr))
    ELSE
        LET x == get_symbol(var)
            rule_name == "exponential_rule"
            \* not simplified first
            e == parse_expr(expr)
            a == e.sub[1]
            reason == ExponentialReason(e, x)
        IN IF reason # ""
           THEN Return(not_applicable(e, rule_name, reason))
           ELSE Return(RuleResult(e, sp_simplify(sp_Mul(e, sp_Function("log", a))), TRUE, rule_name,
                    "Applied exponential derivative rule.",
                    <<Step("Match pattern a^x with constant a."),
                      Step("Derivative: a^x ln(a).")>>))

\* ---------------------------------------------------------- calculator.py
\* rule_map.keys(), in the order the dict is written
RuleNames ==
    <<"power_rule", "constant_multiple_rule", "product_rule", "chain_rule",
      "exponential_rule">>
\* Variant: two entries of the table exchanged.
rule_map_exchanged ==
    [power_rule |-> "apply_power_rule_derivative",
     constant_multiple_rule |-> "apply_constant_multiple_derivative",
     product_rule |-> "apply_chain_rule",
     chain_rule |-> "apply_product_rule",
     exponential_rule |-> "apply_exponential_derivative_rule"]
\* The dict from rule name to matcher.
rule_map ==
    [power_rule |-> "apply_power_rule_derivative",
     constant_multiple_rule |-> "apply_constant_multiple_derivative",
     product_rule |-> "apply_product_rule",
     chain_rule |-> "apply_chain_rule",
     exponential_rule |-> "apply_exponential_derivative_rule"]

\* Variant: the constant multiple rule tried before the power rule.
ordered_rules_exchanged ==
    <<"constant_multiple_rule", "power_rule", "product_rule", "chain_rule",
      "exponential_rule">>
\* The order auto mode tries the rules in.
ordered_rules ==
    <<"power_rule", "constant_multiple_rule", "product_rule", "chain_rule",
      "exponential_rule">>

\* The loop of auto mode from its i-th rule on; last is last_result.
RECURSIVE AutoLoop(_, _, _, _)
AutoLoop(expr, var, i, last) ==
    IF i > Len(ordered_rules) THEN Return(last)
    ELSE LET out == Run(rule_map[ordered_rules[i]], <<expr, var>>)
         IN IF out.raised \/ out.result.applied
            THEN Invoking(ordered_rules[i], out)
            ELSE Invoking(ordered_rules[i], AutoLoop(expr, var, i + 1, out.result))

\* Variant: the allowed values listed without "auto".
UnknownRuleWithoutAuto(rule) ==
    [type |-> "ValueError",
     msg |-> <<"Unknown rule ", rule, ". Allowed values: ">> \o RuleNames \o <<".">>,
     arg |-> NoExpr]
UnknownRule(rule) ==
    [type |-> "ValueError",
     msg |-> <<"Unknown rule ", rule, ". Allowed values: ", "auto">> \o RuleNames \o <<".">>,
     arg |-> NoExpr]

apply_derivative_rule(expr, var, rule) ==
    IF rule = "auto" THEN AutoLoop(expr, var, 1, NoResult)
    ELSE IF rule \notin DOMAIN rule_map THEN Raise(UnknownRule(rule))
    ELSE Invoking(rule, Run(rule_map[rule], <<expr, var>>))

\* Variant: no fallback after auto mode.
differentiate_without_fallback(expr, var) ==
    Run("apply_derivative_rule", <<expr, var, "auto">>)

differentiate_with_rules(expr, var) ==
    LET out == Run("apply_derivative_rule", <<expr, var, "auto">>)
        x == get_symbol(var)
        f == parse_expr(expr)
    IN IF out.raised \/ out.result.applied THEN out
       ELSE [out EXCEPT !.result =
                RuleResult(f, sp_simplify(sp_diff(f, x)), TRUE, "symbolic_fallback",
                    "No simple rule matched; used symbolic differentiation fallback.",
                    <<Step("Apply generic symbolic derivative d/dx.")>>)]

\* ------------------------------------------------- the function table
\* The arguments are passed by value: args is evaluated once, before the call.
Run(fn, args) ==
    TheOne({
        CASE fn = "Add" -> Add2(v[1], v[2])
          [] fn = "Mul" -> Mul2(v[1], v[2])
          [] fn = "Pow" -> MkPow(v[1], v[2])
          [] fn = "Function" -> MkFn(v[1], v[2])
          [] fn = "diff" -> Diff(v[1], v[2])
          [] fn = "expand" -> Expand(v[1])
          [] fn = "factor_terms" -> FactorTerms(v[1])
          [] fn = "as_independent" -> AsIndependent(v[1], v[2])
          [] fn = "simplify" -> Simplify(v[1])
          [] fn = "parse_expr" -> Evaluate(v[1])
          [] fn = "apply_power_rule_derivative" ->
                apply_power_rule_derivative(v[1], v[2])
          [] fn = "apply_constant_multiple_derivative" ->
                apply_constant_multiple_derivative(v[1], v[2])
          [] fn = "apply_product_rule" -> apply_product_rule(v[1], v[2])
          [] fn = "apply_chain_rule" -> apply_chain_rule(v[1], v[2])
          [] fn = "apply_exponential_derivative_rule" ->
                apply_exponential_derivative_rule(v[1], v[2])
          [] fn = "apply_derivative_rule" -> apply_derivative_rule(v[1], v[2], v[3])
          [] fn = "differentiate_with_rules" -> differentiate_with_rules(v[1], v[2])
        : v \in {args}})

\* ------------------------------------------------------------ the calls
\* One call of the library: the caller's expression, the operation it calls,
\* the rule it names (apply_derivative_rule only) and what the call did.
VARIABLES expr, op, rule, pc, outcome
vars == <<expr, op, rule, pc, outcome>>

\* The rule choices a caller passes: the allowed ones and some that are not.
RuleChoices == {"auto", "power_rule", "constant_multiple_rule", "product_rule",
                "chain_rule", "exponential_rule", "bad_rule", "symbolic_fallback", ""}

Init ==
    /\ expr \in Inputs
    /\ op = ""
    /\ rule = ""
    /\ pc = "call"
    /\ outcome = Return(NoResult)

Finish(name, out) ==
    /\ pc = "call"
    /\ pc' = "done"
    /\ op' = name
    /\ outcome' = out
    /\ UNCHANGED expr

PowerRule ==
    /\ Finish("apply_power_rule_derivative",
              Invoking("power_rule",
                       Run("apply_power_rule_derivative", <<expr, DefaultVar>>)))
    /\ UNCHANGED rule

ConstantMultipleRule ==
    /\ Finish("apply_constant_multiple_derivative",
              Invoking("constant_multiple_rule",
                       Run("apply_constant_multiple_derivative", <<expr, DefaultVar>>)))
    /\ UNCHANGED rule

ProductRule ==
    /\ Finish("apply_product_rule",
              Invoking("product_rule", Run("apply_product_rule", <<expr, DefaultVar>>)))
    /\ UNCHANGED rule

ChainRule ==
    /\ Finish("apply_chain_rule",
              Invoking("chain_rule", Run("apply_chain_rule", <<expr, DefaultVar>>)))
    /\ UNCHANGED rule

ExponentialRule ==
    /\ Finish("apply_exponential_derivative_rule",
              Invoking("exponential_rule",
                       Run("apply_exponential_derivative_rule", <<expr, DefaultVar>>)))
    /\ UNCHANGED rule

ApplyDerivativeRule ==
    \E r \in RuleChoices :
        /\ Finish("apply_derivative_rule",
                  Run("apply_derivative_rule", <<expr, DefaultVar, r>>))
        /\ rule' = r

DifferentiateWithRules ==
    /\ Finish("differentiate_with_rules",
              Run("differentiate_with_rules", <<expr, DefaultVar>>))
    /\ rule' = "auto"

Next ==
    \/ PowerRule
    \/ ConstantMultipleRule
    \/ ProductRule
    \/ ChainRule
    \/ ExponentialRule
    \/ ApplyDerivativeRule
    \/ DifferentiateWithRules

Spec == Init /\ [][Next]_vars

\* ----------------------------------------------------------- properties
Done == pc = "done"
Returned == Done /\ ~outcome.raised
res == outcome.result

\* The caller's expr is a text the parser rejects.
Unparseable == expr.form = "text" /\ expr.tree \in BadTexts
\* The caller's expr as the parser hands it over, before any rewriting.
Parsed == IF expr.form = "expr" THEN expr.tree ELSE sympy_parse_expr(expr.tree)

FiveRules == {"power_rule", "constant_multiple_rule", "product_rule", "chain_rule",
              "exponential_rule"}
\* The matcher of a rule name called directly on expr, one case per function.
Direct(name) ==
    CASE name = "power_rule" -> apply_power_rule_derivative(expr, DefaultVar)
      [] name = "constant_multiple_rule" -> apply_constant_multiple_derivative(expr, DefaultVar)
      [] name = "product_rule" -> apply_product_rule(expr, DefaultVar)
      [] name = "chain_rule" -> apply_chain_rule(expr, DefaultVar)
      [] name = "exponential_rule" -> apply_exponential_derivative_rule(expr, DefaultVar)
Priority == <<"power_rule", "constant_multiple_rule", "product_rule", "chain_rule",
              "exponential_rule">>
Contains(msg, piece) == \E i \in 1..Len(msg) : msg[i] = piece

\* C1: every RuleResult a call returns (a matcher, apply_derivative_rule with
\* a valid rule, differentiate_with_rules) has output_expr = input_expr and no
\* steps when applied is false, has steps and a message when applied is true,
\* and always carries one of the five rule names or "symbolic_fallback".
C1_ResultShape ==
    Returned =>
        /\ ~res.applied => (res.output_expr = res.input_expr /\ res.steps = <<>>)
        /\ res.applied => (res.steps # <<>> /\ res.message # "")
        /\ res.rule_name \in FiveRules \cup {"symbolic_fallback"}
        /\ res.input_expr # NoExpr
C1_Witness ==
    /\ Returned
    /\ op = "apply_chain_rule"
    /\ ~res.applied
    /\ Has(res.input_expr, X)

\* C2: apply_derivative_rule with rule "auto" runs the matchers in the order
\* power, constant multiple, product, chain, exponential up to the first one
\* that applies and returns that matcher's result; when none applies it runs
\* all five and returns the exponential rule's not-applicable result, never a
\* symbolic_fallback one.
C2_AutoOrder ==
    (Done /\ op = "apply_derivative_rule" /\ rule = "auto" /\ ~Unparseable) =>
        LET applicable == {i \in 1..5 : Direct(Priority[i]).result.applied}
            first == CHOOSE i \in applicable : \A j \in applicable : i <= j
        IN /\ ~outcome.raised
           /\ res.rule_name # "symbolic_fallback"
           /\ IF applicable # {}
              THEN /\ res = Direct(Priority[first]).result
                   /\ res.applied
                   /\ res.rule_name = Priority[first]
                   /\ outcome.invoked = SubSeq(Priority, 1, first)
              ELSE /\ res = Direct("exponential_rule").result
                   /\ ~res.applied
                   /\ res.rule_name = "exponential_rule"
                   /\ outcome.invoked = Priority
C2_Witness ==
    /\ Done /\ op = "apply_derivative_rule" /\ rule = "auto" /\ ~Unparseable
    /\ res.rule_name = "power_rule" /\ res.applied
    /\ Direct("chain_rule").result.applied

\* C3: for a parseable expression differentiate_with_rules returns an applied
\* result: the auto dispatcher's result when that one is applied, and else a
\* symbolic_fallback result whose output is the simplified generic derivative
\* of the parsed expression and whose steps trail has one entry.
C3_AlwaysApplied ==
    (Done /\ op = "differentiate_with_rules" /\ ~Unparseable) =>
        LET auto == apply_derivative_rule(expr, DefaultVar, "auto")
        IN /\ ~outcome.raised
           /\ res.applied
           /\ IF auto.result.applied
              THEN res = auto.result
              ELSE /\ res.rule_name = "symbolic_fallback"
                   /\ res.input_expr = Parsed
                   /\ res.output_expr = sp_simplify(sp_diff(Parsed, X))
                   /\ Len(res.steps) = 1
C3_Witness ==
    /\ Done /\ op = "differentiate_with_rules"
    /\ expr = Text(Bin("^", X, X))
    /\ res.rule_name = "symbolic_fallback"

\* Algebraic equality, as the tests decide it: the difference, simplified and
\* multiplied out, is 0.
AlgEqual(a, b) == sp_expand(sp_simplify(Sub2(a, b))) = Zero

\* C4: whenever one of the five matchers applies, its output_expr is
\* algebraically equal to the generic derivative of its input_expr with
\* respect to x.
C4_OutputIsDerivative ==
    (Returned /\ res.applied /\ res.rule_name \in FiveRules) =>
        AlgEqual(res.output_expr, sp_diff(res.input_expr, X))
C4_Witness ==
    /\ Returned /\ op = "apply_product_rule" /\ res.applied
    /\ res.output_expr.k = "add"

\* C5: apply_derivative_rule given a rule choice outside auto and the five
\* rule names raises the unknown-rule error for every expr, a text that does
\* not parse included: the message holds "Unknown rule", the name and the
\* allowed names; no result is returned and no matcher is run.
C5_UnknownRule ==
    (Done /\ op = "apply_derivative_rule" /\ rule \notin FiveRules \cup {"auto"}) =>
        /\ outcome.raised
        /\ outcome.error.type = "ValueError"
        /\ Contains(outcome.error.msg, "Unknown rule ")
        /\ Contains(outcome.error.msg, rule)
        /\ \A name \in FiveRules \cup {"auto"} : Contains(outcome.error.msg, name)
        /\ res = NoResult
        /\ outcome.invoked = <<>>
C5_Witness ==
    /\ Done /\ op = "apply_derivative_rule" /\ rule = "bad_rule"
    /\ Unparseable /\ outcome.raised

C7_NamedRuleVerbatim ==
    (Done /\ op = "apply_derivative_rule" /\ rule \in FiveRules) =>
        /\ outcome.invoked = <<rule>>
        /\ outcome.raised = Direct(rule).raised
        /\ outcome.error = Direct(rule).error
        /\ res = Direct(rule).result
        /\ ~outcome.raised => res.rule_name = rule
C7_Witness ==
    /\ Done /\ op = "apply_derivative_rule" /\ rule = "product_rule"
    /\ ~outcome.raised /\ ~res.applied
    /\ Direct("power_rule").result.applied

\* C8 as stated: the constant multiple rule applies exactly when c is not 1
\* and rest depends on x, so never to an expression without x.
C8_Original ==
    (Returned /\ op = "apply_constant_multiple_derivative") =>
        LET f_s == sp_factor_terms(Parsed)
            c == as_independent(f_s, X)[1]
            rest == as_independent(f_s, X)[2]
        IN /\ res.applied <=> (c # One /\ Has(rest, X))
           /\ ~Has(Parsed, X) => ~res.applied
           /\ ~res.applied =>
                 res.message = "Not applicable: no constant multiple factor found."

\* C8 (amended): the constant multiple rule applies exactly when, after
\* factoring common terms, the part c independent of x is not 1, whether or
\* not the rest depends on x; an expression without x other than 1 is all c,
\* the rule applies to it and the output is 0.  It does not apply exactly
\* when c is 1, with the 'no constant multiple factor' message.
C8_AppliesIffFactorNotOne ==
    (Returned /\ op = "apply_constant_multiple_derivative") =>
        LET f_s == sp_factor_terms(Parsed)
            c == as_independent(f_s, X)[1]
        IN /\ res.rule_name = "constant_multiple_rule"
           /\ res.input_expr = f_s
           /\ res.applied <=> c # One
           /\ (~Has(Parsed, X) /\ Parsed # One) => (res.applied /\ res.output_expr = Zero)
           /\ ~res.applied =>
                 res.message = "Not applicable: no constant multiple factor found."
C8_Witness ==
    /\ Returned /\ op = "apply_constant_multiple_derivative"
    /\ ~Has(Parsed, X)
    /\ res.applied /\ res.output_expr = Zero

\* C9: the product rule applies exactly when the simplified expression is a
\* product of which exactly two factors depend on x; it does not apply to
\* anything that is not a product nor to a product with 0, 1, 3 or more such
\* factors, and its result always carries the name product_rule.
C9_ProductExactlyTwo ==
    (Returned /\ op = "apply_product_rule") =>
        LET e == sp_simplify(Parsed)
            dependent == IF e.k = "mul" THEN {f \in e.args : Has(f, X)} ELSE {}
        IN /\ res.rule_name = "product_rule"
           /\ res.input_expr = e
           /\ res.applied <=> (e.k = "mul" /\ Cardinality(dependent) = 2)
C9_Witness ==
    /\ Returned /\ op = "apply_product_rule" /\ ~res.applied
    /\ res.input_expr.k = "mul"
    /\ Cardinality({f \in res.input_expr.args : Has(f, X)}) >= 3

\* C10: the exponential rule looks at the parse as it is, not simplified, and
\* applies exactly when that is a power whose exponent is x itself and whose
\* base is free of x; the reasons for not applying are tested in the order
\* not a power, exponent is not x, base depends on x.
C10_ExponentialExact ==
    (Returned /\ op = "apply_exponential_derivative_rule") =>
        LET e == Parsed
        IN /\ res.rule_name = "exponential_rule"
           /\ res.input_expr = e
           /\ res.applied <=> (e.k = "pow" /\ e.sub[2] = X /\ ~Has(e.sub[1], X))
           /\ ~res.applied =>
                 res.message =
                     IF e.k # "pow" THEN "Not applicable: expression is not a^x."
                     ELSE IF e.sub[2] # X THEN "Not applicable: exponent is not x."
                     ELSE "Not applicable: base a is not constant."
\* 2^(2*x): simplified it would be 4^x and match; unsimplified it does not.
C10_Witness ==
    /\ Returned /\ op = "apply_exponential_derivative_rule" /\ ~res.applied
    /\ res.message = "Not applicable: exponent is not x."
    /\ sp_simplify(Parsed).k = "pow"
    /\ sp_simplify(Parsed).sub[2] = X
    /\ ~Has(sp_simplify(Parsed).sub[1], X)

\* The outer forms of the chain rule that e has: g^n with g depending on x
\* and n free of x and not 1, and f(g) for f among exp, log, sin, cos with g
\* depending on x.
OuterForms(e) ==
    (IF e.k = "pow" /\ Has(e.sub[1], X) /\ ~Has(e.sub[2], X) /\ e.sub[2] # One
     THEN {"pow"} ELSE {})
        \cup {f \in Functions : e.k = "fn" /\ e.s = f /\ Has(e.sub[1], X)}

\* C11: the chain rule applies exactly when the simplified expression has
\* one of the five outer forms g^n (n free of x, n # 1), exp(g), log(g),
\* sin(g), cos(g) with g depending on x; no expression has two of them; a
\* power whose exponent depends on x and a function of an argument free of x
\* are not applicable; the result always carries the name chain_rule.
C11_ChainExactlyOuterForms ==
    (Returned /\ op = "apply_chain_rule") =>
        LET e == sp_simplify(Parsed)
        IN /\ res.rule_name = "chain_rule"
           /\ res.input_expr = e
           /\ res.applied <=> OuterForms(e) # {}
           /\ Cardinality(OuterForms(e)) <= 1
           /\ (e.k = "pow" /\ Has(e.sub[2], X)) => ~res.applied
           /\ (e.k = "fn" /\ ~Has(e.sub[1], X)) => ~res.applied
\* x^x, or any power of x whose exponent has x: not applicable.
C11_Witness ==
    /\ Returned /\ op = "apply_chain_rule" /\ ~res.applied
    /\ res.rule_name = "chain_rule"
    /\ res.input_expr.k = "pow"
    /\ Has(res.input_expr.sub[1], X) /\ Has(res.input_expr.sub[2], X)

====
